---- MODULE Spec2Model ----
(***************************************************************************)
(* Vector-store synchronisation of DocuCat (src/vector_store.py):          *)
(* initialize_vector_store (full build) and update_vector_store            *)
(* (incremental update) over a git repository, a Milvus Lite collection    *)
(* and the store.json metadata file.                                       *)
(*                                                                         *)
(* Every operation is one atomic action: the code is single threaded and   *)
(* blocking.  What the collaborators (git, file system, embedding          *)
(* provider, Milvus) answer is an input of the action: `fault` names the   *)
(* one call of the operation that fails (an early return hides every later *)
(* call), `out` names, per file, the step of the per-file loop that fails. *)
(* Milvus calls are atomic: a call that raises has changed nothing.        *)
(*                                                                         *)
(* Specifications: Spec (a repository whose tracked files lie where the    *)
(* scan goes), HiddenSpec (a repository that tracks a file under .github), *)
(* DriverSpec (main() of src/init_update_store_aga.py, which commits       *)
(* .docucat), DeleteSpec (delete_chunks_by_file_path alone) and QuerySpec  *)
(* (the search tool of src/tools/query_vector_store.py).                   *)
(***************************************************************************)
EXTENDS Integers, Sequences, FiniteSets, Bags, TLC

(* ------------------------------ bounds -------------------------------- *)

\* File contents are versions 0..MaxContent: 0 is "no such file", 1 is a
\* whitespace-only file, c >= 2 is text that splits into c - 1 chunks.
\* The versions above MaxContent are those of store.json (see StoreJson).
MaxContent == 3

\* Commits of the repository; a commit's sha is its index in `commits`.
MaxCommits == 3

\* Copies of one row in a collection handed to delete_chunks_by_file_path.
MaxCopies == 2

(* ------------------------------- paths -------------------------------- *)

\* A repository-relative path: its directories, its stem and its suffix.
PathA == [dirs |-> <<>>, stem |-> "a", ext |-> ".py"]
PathB == [dirs |-> <<"docs">>, stem |-> "b", ext |-> ".MD"]
PathC == [dirs |-> <<>>, stem |-> "c", ext |-> ".bin"]
PathD == [dirs |-> <<".github">>, stem |-> "w", ext |-> ".yml"]
\* get_store_json_path: .docucat/store.json
PathS == [dirs |-> <<".docucat">>, stem |-> "store", ext |-> ".json"]

Paths == {PathA, PathB, PathC, PathD, PathS}

\* `git diff --name-only` prints the changed paths sorted by name:
\* .docucat/store.json, .github/w.yml, a.py, c.bin, docs/b.MD.
DiffOrder == <<PathS, PathD, PathA, PathC, PathB>>

\* os.walk lists the files of the root before those of its directories.
WalkOrder == <<PathA, PathC, PathB, PathD, PathS>>

\* str.lower() on the suffixes that occur.
Lower(ext) ==
    CASE ext = ".MD" -> ".md"
      [] ext = ".PY" -> ".py"
      [] OTHER -> ext

\* The keys of the extension table.
get_supported_extensions ==
    { ".py", ".js", ".ts", ".java", ".cpp", ".cc", ".cxx", ".c", ".h", ".hpp",
      ".cs", ".go", ".rs", ".rb", ".php", ".swift", ".kt", ".scala", ".r",
      ".m", ".mm", ".md", ".tex", ".html", ".htm", ".xml", ".json", ".yaml",
      ".yml", ".sh", ".bash", ".ps1", ".sql", ".txt" }

\* file_ext = Path(p).suffix.lower(); file_ext in supported_extensions
Supported(p) == Lower(p.ext) \in get_supported_extensions

\* Directories os.walk does not descend into.
skip_dirs ==
    { ".git", ".docucat", "__pycache__", "node_modules", ".venv", "venv", "env",
      ".pytest_cache", ".tox", "dist", "build", ".egg-info" }

\* d.startswith('.') for the directory names that occur.
Hidden(d) == d \in { ".git", ".docucat", ".venv", ".pytest_cache", ".tox",
                     ".egg-info", ".github" }

\* The walk reaches p: no directory of p is skipped or hidden.
Walked(p) ==
    \A i \in 1..Len(p.dirs) : p.dirs[i] \notin skip_dirs /\ ~Hidden(p.dirs[i])

SupportedPaths == { p \in Paths : Supported(p) }

\* The files of a repository whose tracked files all lie where the walk goes.
WalkedPaths == { p \in Paths : Walked(p) }

\* Contents a file can have; an unsupported file is absent, or holds text that
\* would split into one chunk.
Contents(p) == IF Supported(p) THEN 0..MaxContent ELSE { 0, 2 }

Trees == { t \in [Paths -> 0..MaxContent] : \A p \in Paths : t[p] \in Contents(p) }

\* The content version of a store.json whose last_update_sha is sha: a text
\* of its own for every sha, no file when there is no metadata.
StoreJson(sha) == IF sha = 0 THEN 0 ELSE MaxContent + sha

\* The first commit: a.py with one chunk of text, nothing else.
InitialTree == [p \in Paths |-> IF p = PathA THEN 2 ELSE 0]

(* ------------------------------- state -------------------------------- *)

VARIABLES
    commits,    \* git history: commits[sha] is the tree of commit sha
    dbExists,   \* .docucat/milvus.db exists
    store,      \* rows of the collection: row -> number of copies
    meta,       \* last_update_sha of .docucat/store.json, 0: no such file
    connOpen,   \* the connection alias "default" is connected
    call,       \* the operation that just ran, and what its collaborators answered
    result,     \* the dict it returned
    io          \* the calls it made to its collaborators

vars == <<commits, dbExists, store, meta, connOpen, call, result, io>>

\* HEAD and the checked-out files (a clean checkout of HEAD).
head == Len(commits)
disk == commits[head]

\* What open() and exists() find at path f: the checked-out file, and for
\* store.json the file save_store_metadata wrote last.
OnDisk(f) == IF f = PathS THEN StoreJson(meta) ELSE disk[f]

\* A row of the collection: the file and the chunk text, <<c, i>> being the
\* i-th chunk of content version c.
Rows ==
    { r \in [file_path : Paths,
             content : (2..(MaxContent + MaxCommits)) \X (1..MaxContent)] :
        IF r.file_path = PathS
        THEN r.content[1] > MaxContent /\ r.content[2] = 1
        ELSE r.content[2] < r.content[1] /\ r.content[1] <= MaxContent }

EmptyStore == [r \in Rows |-> 0]

AllOk == [p \in Paths |-> "ok"]

NoCall == [op |-> "none", force |-> FALSE, fault |-> "none", out |-> AllOk]

NoResult == [success |-> FALSE, error_type |-> "none"]

\* bad_vectors: the vectors of a length other than EMBEDDING_DIM it stored.
NoIO == [connects |-> 0, diffs |-> 0, embeds |-> 0, deletes |-> 0,
         inserts |-> 0, meta_writes |-> 0, bad_vectors |-> 0]

(* ----------------------------- helpers -------------------------------- *)

\* The rows stored under exactly this file_path.
RowsOf(s, p) == { r \in DOMAIN s : r.file_path = p /\ s[r] > 0 }

\* The number of copies the rows of R have together.
SumOver(s, R) ==
    BagCardinality([r \in { x \in R : s[x] > 0 } |-> s[r]])

\* The number of rows stored under this file_path.
CountOf(s, p) == SumOver(s, RowsOf(s, p))

\* collection.num_entities
NumEntities(s) == SumOver(s, DOMAIN s)

\* git diff --name-only old new: the paths whose blobs differ, sorted.
get_changed_files(old, new) ==
    SelectSeq(DiffOrder, LAMBDA p : commits[old][p] # commits[new][p])

\* split_file_into_chunks on content version c.
split_file_into_chunks(c, fails) ==
    IF fails \/ c = 0 THEN [chunks |-> <<>>, error |-> TRUE]
    ELSE IF c = 1 THEN [chunks |-> <<>>, error |-> FALSE]
    \* a store.json is shorter than chunk_size: one chunk
    ELSE IF c > MaxContent THEN [chunks |-> << <<c, 1>> >>, error |-> FALSE]
    ELSE [chunks |-> [i \in 1..(c - 1) |-> <<c, i>>], error |-> FALSE]

\* collection.insert of the chunks of file p, then flush.
Insert(s, p, chunks) ==
    [r \in Rows |->
        IF r.file_path = p /\ \E i \in 1..Len(chunks) : chunks[i] = r.content
        THEN s[r] + 1 ELSE s[r]]

\* delete_chunks_by_file_path with the delete never issued.
delete_chunks_skipped(s, p, fault) ==
    [store |-> s, deleted |-> 0, error |-> fault # "none", issued |-> 0]

\* delete_chunks_by_file_path without its filter expression: every row matches.
delete_chunks_unfiltered(s, p, fault) ==
    [store |-> [r \in DOMAIN s |-> 0], deleted |-> NumEntities(s),
     error |-> FALSE, issued |-> 1]

\* delete_chunks_by_file_path: query file_path == p, delete the ids found,
\* flush.  fault "query": load, query or delete raises; fault "flush": flush
\* raises after the delete.  Either way (0, error) is returned.
delete_chunks_by_file_path(s, p, fault) ==
    IF fault = "query" THEN [store |-> s, deleted |-> 0, error |-> TRUE, issued |-> 0]
    ELSE IF RowsOf(s, p) = {}
    THEN [store |-> s, deleted |-> 0, error |-> FALSE, issued |-> 0]
    ELSE LET emptied == [r \in DOMAIN s |-> IF r.file_path = p THEN 0 ELSE s[r]]
         IN  IF fault = "flush"
             THEN [store |-> emptied, deleted |-> 0, error |-> TRUE, issued |-> 1]
             ELSE [store |-> emptied, deleted |-> CountOf(s, p), error |-> FALSE,
                   issued |-> 1]

\* save_store_metadata: store.json afterwards.  open(path, 'w') raising leaves
\* the file as it was; json.dump raising leaves the truncated file, which
\* load_store_metadata reads as None.  The exception is swallowed, and no
\* caller looks at the False returned.
save_store_metadata(commit_sha, fault) ==
    IF fault = "meta_open" THEN meta
    ELSE IF fault = "meta_write" THEN 0
    ELSE commit_sha

\* The failure dicts.
Failure(type) == [success |-> FALSE, error_type |-> type]

\* The exception leaves the operation instead of being turned into a dict.
Caught_propagated == [success |-> FALSE, error_type |-> "raised"]

\* The dict of the outer `except Exception`: str(e) and the traceback.
Caught == [success |-> FALSE, error_type |-> "processing_error", traceback |-> TRUE]

\* An early return whose failure dict is written after store.json.
Failed_saved(s, type) ==
    [s EXCEPT !.meta = head, !.io.meta_writes = 1, !.result = Failure(type)]

\* An early return of a failure dict: nothing else is done.
Failed(s, type) == [s EXCEPT !.result = Failure(type)]

(* --------------------------- the repository --------------------------- *)

Init ==
    /\ commits = <<InitialTree>>
    /\ dbExists = FALSE
    /\ store = EmptyStore
    /\ meta = 0
    /\ connOpen = FALSE
    /\ call = NoCall
    /\ result = NoResult
    /\ io = NoIO

\* A developer changes one file and commits.
Commit(p, c) ==
    /\ head < MaxCommits
    /\ c # disk[p]
    /\ commits' = Append(commits, [disk EXCEPT ![p] = c])
    /\ call' = NoCall
    /\ result' = NoResult
    /\ io' = NoIO
    /\ UNCHANGED <<dbExists, store, meta, connOpen>>

(* ------------------------- incremental update ------------------------- *)

\* What the calls of the per-file loop answer for one file.
\* "delete_error": load, query or delete raised in delete_chunks_by_file_path.
\* "delete_flush_error": its flush raised after the delete.
\* "embed_error": embed_documents or insert raised inside the try block.
\* "flush_error": flush raised after the insert.
\* "dim_error": embed_documents returned a vector of a length other than
\* EMBEDDING_DIM and insert did not raise.
Outcomes == { "ok", "delete_error", "delete_flush_error", "split_error",
              "embed_error", "flush_error", "dim_error" }

\* The call of update_vector_store that fails, if any: the root is missing,
\* git rev-parse fails, git diff fails, Collection() raises, GEMINI_API_KEY is
\* unset, store.json cannot be opened for writing, or cannot be written.
UpdateFaults == { "none", "root", "sha", "diff", "lookup", "key",
                  "meta_open", "meta_write" }

\* The comparison of the two shas left out.
NoChanges_never(old_sha, new_sha) == FALSE

\* if old_sha == new_sha
NoChanges(old_sha, new_sha) == old_sha = new_sha

\* The try block when nothing raises: the vectors are inserted as returned,
\* their lengths are not looked at.
Inserted(deleted, f, chunks, outcome) ==
    [deleted EXCEPT !.store = Insert(@, f, chunks),
                    !.chunks_added = @ + Len(chunks),
                    !.embeds = @ + 1, !.inserts = @ + 1,
                    !.bad_vectors = @ + (IF outcome = "dim_error" THEN 1 ELSE 0),
                    !.processed_files = @ + 1]

\* The try block when flush raises: the rows are inserted, the file is recorded
\* as failed and its chunks are not counted.
Unflushed(deleted, f, chunks) ==
    [deleted EXCEPT !.store = Insert(@, f, chunks),
                    !.processing_errors = Append(@, f),
                    !.embeds = @ + 1, !.inserts = @ + 1]

\* The try block without its `continue`: a failed file is also counted as processed.
EmbedAndInsert_counted(deleted, f, chunks, outcome) ==
    IF outcome = "embed_error"
    THEN [deleted EXCEPT !.processing_errors = Append(@, f),
                         !.embeds = @ + 1,
                         !.processed_files = @ + 1]
    ELSE IF outcome = "flush_error" THEN Unflushed(deleted, f, chunks)
    ELSE Inserted(deleted, f, chunks, outcome)

\* The try block without its except clause: the exception leaves the loop.
EmbedAndInsert_uncaught(deleted, f, chunks, outcome) ==
    IF outcome = "embed_error"
    THEN [deleted EXCEPT !.embeds = @ + 1, !.raised = TRUE]
    ELSE IF outcome = "flush_error" THEN Unflushed(deleted, f, chunks)
    ELSE Inserted(deleted, f, chunks, outcome)

\* The try block of the loop: embed the chunks, insert, flush; an exception
\* is caught, recorded for the file, and the loop continues.
EmbedAndInsert(deleted, f, chunks, outcome) ==
    IF outcome = "embed_error"
    THEN [deleted EXCEPT !.processing_errors = Append(@, f),
                         !.embeds = @ + 1]
    ELSE IF outcome = "flush_error" THEN Unflushed(deleted, f, chunks)
    ELSE Inserted(deleted, f, chunks, outcome)

\* The iteration without the `continue` after a chunking error: the file is
\* recorded as failed and counted as processed.
ProcessSupported_recounted(acc, f, outcome) ==
    LET del == delete_chunks_by_file_path(acc.store, f,
                    CASE outcome = "delete_error" -> "query"
                      [] outcome = "delete_flush_error" -> "flush"
                      [] OTHER -> "none")
        deleted == [acc EXCEPT !.store = del.store,
                               !.chunks_deleted = @ + del.deleted,
                               !.deletes = @ + del.issued]
        sp == split_file_into_chunks(OnDisk(f), outcome = "split_error")
    IN  IF del.error
        THEN [acc EXCEPT !.store = del.store,
                         !.deletes = @ + del.issued,
                         !.processing_errors = Append(@, f)]
        ELSE IF OnDisk(f) = 0
        THEN [deleted EXCEPT !.processed_files = @ + 1]
        ELSE IF sp.error
        THEN [deleted EXCEPT !.processing_errors = Append(@, f),
                             !.processed_files = @ + 1]
        ELSE IF sp.chunks = <<>>
        THEN [deleted EXCEPT !.processed_files = @ + 1]
        ELSE EmbedAndInsert(deleted, f, sp.chunks, outcome)

\* One iteration of the loop on a file whose extension is in the table.
ProcessSupported(acc, f, outcome) ==
    LET del == delete_chunks_by_file_path(acc.store, f,
                    CASE outcome = "delete_error" -> "query"
                      [] outcome = "delete_flush_error" -> "flush"
                      [] OTHER -> "none")
        deleted == [acc EXCEPT !.store = del.store,
                               !.chunks_deleted = @ + del.deleted,
                               !.deletes = @ + del.issued]
        sp == split_file_into_chunks(OnDisk(f), outcome = "split_error")
    IN  IF del.error
        THEN [acc EXCEPT !.store = del.store,
                         !.deletes = @ + del.issued,
                         !.processing_errors = Append(@, f)]
        ELSE IF OnDisk(f) = 0
        THEN [deleted EXCEPT !.processed_files = @ + 1]
        ELSE IF sp.error
        THEN [deleted EXCEPT !.processing_errors = Append(@, f)]
        ELSE IF sp.chunks = <<>>
        THEN [deleted EXCEPT !.processed_files = @ + 1]
        ELSE EmbedAndInsert(deleted, f, sp.chunks, outcome)

\* The loop without its test of the extension.
ProcessChanged_unskipped(acc, f, outcome) == ProcessSupported(acc, f, outcome)

\* One iteration of `for changed_file in changed_files`, on the totals so far:
\* a file whose extension is not in the table is skipped.
ProcessChanged(acc, f, outcome) ==
    IF ~Supported(f) THEN acc
    ELSE ProcessSupported(acc, f, outcome)

\* The loop with `break` in the place of `continue`: it stops at the first
\* file that failed.
RECURSIVE ProcessAll_stopping(_, _, _)
ProcessAll_stopping(acc, files, out) ==
    IF files = <<>> \/ acc.raised \/ acc.processing_errors # <<>> THEN acc
    ELSE ProcessAll_stopping(ProcessChanged(acc, Head(files), out[Head(files)]),
                             Tail(files), out)

RECURSIVE ProcessAll(_, _, _)
ProcessAll(acc, files, out) ==
    IF files = <<>> \/ acc.raised THEN acc
    ELSE ProcessAll(ProcessChanged(acc, Head(files), out[Head(files)]),
                    Tail(files), out)

\* The success dict of update_vector_store.
UpdateResult(old_sha, new_sha, changed, acc) ==
    [success |-> TRUE, old_sha |-> old_sha, new_sha |-> new_sha,
     changed_files |-> changed,
     processed_files |-> acc.processed_files,
     chunks_deleted |-> acc.chunks_deleted,
     chunks_added |-> acc.chunks_added,
     processing_errors |-> acc.processing_errors]

\* update_vector_store: the state it leaves and what it returns.
update_vector_store(fault, out) ==
    LET pre == [store |-> store, meta |-> meta, connOpen |-> connOpen,
                io |-> NoIO, result |-> NoResult]
        old_sha == meta
        new_sha == head
        changed_files == get_changed_files(old_sha, new_sha)
        zero == [store |-> store, chunks_deleted |-> 0, chunks_added |-> 0,
                 processed_files |-> 0, processing_errors |-> <<>>,
                 deletes |-> 0, inserts |-> 0, embeds |-> 0,
                 bad_vectors |-> 0, raised |-> FALSE]
        acc == ProcessAll(zero, changed_files, out)
    IN  IF fault = "root" THEN Failed(pre, "validation")
        ELSE IF ~dbExists THEN Failed(pre, "validation")
        ELSE IF meta = 0 THEN Failed(pre, "validation")
        ELSE IF fault = "sha" THEN Failed(pre, "validation")
        ELSE IF NoChanges(old_sha, new_sha)
        THEN [pre EXCEPT !.result = UpdateResult(old_sha, new_sha, 0, zero)]
        ELSE IF fault = "diff"
        THEN [pre EXCEPT !.io.diffs = 1, !.result = Failure("git_error")]
        ELSE IF changed_files = <<>>
        THEN [pre EXCEPT !.io.diffs = 1,
                         !.meta = save_store_metadata(new_sha, fault),
                         !.io.meta_writes = 1,
                         !.result = UpdateResult(old_sha, new_sha, 0, zero)]
        ELSE IF fault = "lookup"
        THEN [pre EXCEPT !.io.diffs = 1, !.io.connects = 1,
                         !.connOpen = TRUE,
                         !.result = Caught]
        ELSE IF fault = "key"
        THEN [pre EXCEPT !.io.diffs = 1, !.io.connects = 1,
                         !.connOpen = FALSE,
                         !.result = Failure("processing_error")]
        ELSE IF acc.raised
        \* an exception that leaves the loop reaches the outer except
        THEN [pre EXCEPT !.io.diffs = 1, !.io.connects = 1,
                         !.store = acc.store,
                         !.connOpen = TRUE,
                         !.io.deletes = acc.deletes,
                         !.io.inserts = acc.inserts,
                         !.io.embeds = acc.embeds,
                         !.result = Caught]
        ELSE [pre EXCEPT !.io.diffs = 1, !.io.connects = 1,
                         !.store = acc.store,
                         !.connOpen = FALSE,
                         !.meta = save_store_metadata(new_sha, fault),
                         !.io.deletes = acc.deletes,
                         !.io.inserts = acc.inserts,
                         !.io.embeds = acc.embeds,
                         !.io.bad_vectors = acc.bad_vectors,
                         !.io.meta_writes = 1,
                         !.result = UpdateResult(old_sha, new_sha,
                                                 Len(changed_files), acc)]

\* The faults that can happen: a call that is not reached cannot fail.
UpdateFaultsNow ==
    IF ~dbExists \/ meta = 0 THEN { "none", "root" }
    ELSE IF NoChanges(meta, head) THEN { "none", "root", "sha" }
    ELSE IF get_changed_files(meta, head) = <<>>
    THEN { "none", "root", "sha", "diff", "meta_open", "meta_write" }
    ELSE UpdateFaults

\* What the loop's calls can answer for a file: only the supported changed
\* files are processed, only a file on disk is split, only chunks are embedded.
UpdateOutcomes(p) ==
    IF ~Supported(p) \/ commits[meta][p] = disk[p] THEN { "ok" }
    ELSE { o \in Outcomes :
            /\ o = "delete_flush_error" => CountOf(store, p) > 0
            /\ o = "split_error" => OnDisk(p) # 0
            /\ o \in { "embed_error", "flush_error", "dim_error" } => OnDisk(p) >= 2 }

UpdateInputs(fault) ==
    IF fault \in { "none", "meta_open", "meta_write" }
       /\ dbExists /\ meta # 0 /\ ~NoChanges(meta, head)
    THEN { (PathA :> oa) @@ (PathB :> ob) @@ (PathC :> oc) @@ (PathD :> od)
                @@ (PathS :> os) :
                oa \in UpdateOutcomes(PathA), ob \in UpdateOutcomes(PathB),
                oc \in UpdateOutcomes(PathC), od \in UpdateOutcomes(PathD),
                os \in UpdateOutcomes(PathS) }
    ELSE { AllOk }

Update ==
    \E fault \in UpdateFaultsNow : \E out \in UpdateInputs(fault) :
      \E post \in { update_vector_store(fault, out) } :
        /\ store' = post.store
        /\ meta' = post.meta
        /\ connOpen' = post.connOpen
        /\ call' = [op |-> "update", force |-> FALSE, fault |-> fault, out |-> out]
        /\ result' = post.result
        /\ io' = post.io
        /\ UNCHANGED <<commits, dbExists>>

(* ----------------------------- full build ----------------------------- *)

BuildOutcomes == { "ok", "split_error" }

\* The call of initialize_vector_store that fails, if any: the root is missing,
\* the walk fails, GEMINI_API_KEY is unset, embed_documents raises, the first
\* vector has the wrong dimension, insert raises, git rev-parse fails,
\* store.json cannot be opened for writing, or cannot be written.
\* "dim_later": a vector other than the first has the wrong dimension and
\* insert does not raise.  "flush": flush raises after the insert.
BuildFaults == { "none", "root", "scan", "key", "embed", "dim_first", "dim_later",
                 "insert", "flush", "sha", "meta_open", "meta_write" }

\* The existing store not looked for.
AlreadyExists_unchecked(force) == FALSE

\* if milvus_db_path.exists() and not force
AlreadyExists(force) == dbExists /\ ~force

\* scan_repository_files: the supported files the walk reaches.
scan_repository_files ==
    SelectSeq(WalkOrder, LAMBDA p : Walked(p) /\ Supported(p) /\ disk[p] # 0)

\* The iteration without `if chunks`: a file without chunks counts as processed.
ChunkScanned_unfiltered(acc, f, outcome) ==
    LET sp == split_file_into_chunks(disk[f], outcome = "split_error")
    IN  IF sp.error
        THEN [acc EXCEPT !.processing_errors = Append(@, f)]
        ELSE [acc EXCEPT !.files_processed = @ + 1,
                         !.rows = Insert(@, f, sp.chunks),
                         !.total_chunks = @ + Len(sp.chunks)]

\* One iteration of `for relative_path, file_type, absolute_path in supported_files`.
ChunkScanned(acc, f, outcome) ==
    LET sp == split_file_into_chunks(disk[f], outcome = "split_error")
    IN  IF sp.error
        THEN [acc EXCEPT !.processing_errors = Append(@, f)]
        ELSE IF sp.chunks = <<>> THEN acc
        ELSE [acc EXCEPT !.files_processed = @ + 1,
                         !.rows = Insert(@, f, sp.chunks),
                         !.total_chunks = @ + Len(sp.chunks)]

RECURSIVE ChunkAll(_, _, _)
ChunkAll(acc, files, out) ==
    IF files = <<>> THEN acc
    ELSE ChunkAll(ChunkScanned(acc, Head(files), out[Head(files)]), Tail(files), out)

\* collection.insert that has stored the batch when it raises.
InsertBatch_partial(s, rows, fault) == rows

\* collection.insert(data) of build: the one batch with the rows of every
\* file, stored as a whole unless the call raises.
InsertBatch(s, rows, fault) == IF fault = "insert" THEN s ELSE rows

\* initialize_vector_store: the state it leaves and what it returns.
initialize_vector_store(force, fault, out) ==
    LET pre == [dbExists |-> dbExists, store |-> store, meta |-> meta,
                connOpen |-> connOpen, io |-> NoIO, result |-> NoResult]
        store_existed == force /\ dbExists
        \* unlink of the old database, connect, drop and create the collection
        created == [pre EXCEPT !.dbExists = TRUE,
                               !.store = EmptyStore,
                               !.connOpen = TRUE,
                               !.io.connects = 1]
        closed == [created EXCEPT !.connOpen = FALSE]
        supported_files == scan_repository_files
        acc == ChunkAll([rows |-> EmptyStore, files_processed |-> 0,
                         total_chunks |-> 0, processing_errors |-> <<>>],
                        supported_files, out)
        \* commit_sha = get_current_git_sha(); if commit_sha: save_store_metadata()
        Saved(s) ==
            IF fault = "sha" THEN s
            ELSE [s EXCEPT !.meta = save_store_metadata(head, fault),
                           !.io.meta_writes = 1]
    IN  IF fault = "root" THEN Failed(pre, "validation")
        ELSE IF AlreadyExists(force)
        THEN [pre EXCEPT !.result = [success |-> FALSE,
                                     error_type |-> "already_exists",
                                     store_path |-> ".docucat"]]
        ELSE IF fault = "scan"
        THEN Failed(closed, "scan_error")
        ELSE IF supported_files = <<>>
        THEN [Saved(closed) EXCEPT
                !.result = [success |-> TRUE, files_scanned |-> 0,
                            files_processed |-> 0, chunks_stored |-> 0,
                            store_existed |-> store_existed,
                            processing_errors |-> <<>>]]
        ELSE IF fault = "key"
        THEN Failed(closed, "processing_error")
        ELSE IF acc.total_chunks > 0 /\ fault \in { "embed", "dim_first" }
        THEN [closed EXCEPT !.io.embeds = 1,
                            !.result = Failure("processing_error")]
        ELSE IF acc.total_chunks > 0 /\ fault = "insert"
        THEN [created EXCEPT !.store = InsertBatch(EmptyStore, acc.rows, fault),
                             !.io.embeds = 1, !.io.inserts = 1,
                             !.result = Caught]
        ELSE IF acc.total_chunks > 0 /\ fault = "flush"
        THEN [created EXCEPT !.store = InsertBatch(EmptyStore, acc.rows, fault),
                             !.io.embeds = 1, !.io.inserts = 1,
                             !.result = Caught]
        ELSE [Saved(closed) EXCEPT
                !.store = InsertBatch(EmptyStore, acc.rows, fault),
                !.io.embeds = IF acc.total_chunks > 0 THEN 1 ELSE 0,
                !.io.inserts = IF acc.total_chunks > 0 THEN 1 ELSE 0,
                !.io.bad_vectors =
                    IF acc.total_chunks > 1 /\ fault = "dim_later" THEN 1 ELSE 0,
                !.result = [success |-> TRUE,
                            files_scanned |-> Len(supported_files),
                            files_processed |-> acc.files_processed,
                            chunks_stored |-> acc.total_chunks,
                            store_existed |-> store_existed,
                            processing_errors |-> acc.processing_errors]]

\* The faults that can happen: a call that is not reached cannot fail.
BuildFaultsNow(force) ==
    IF AlreadyExists(force) THEN { "none", "root" }
    ELSE IF scan_repository_files = <<>>
    THEN { "none", "root", "scan", "sha", "meta_open", "meta_write" }
    ELSE BuildFaults

\* Only the scanned files are split.
BuildInputs(force, fault) ==
    IF fault \in { "none", "embed", "dim_first", "dim_later", "insert", "flush", "sha",
                   "meta_open", "meta_write" }
       /\ ~AlreadyExists(force)
    THEN { out \in [Paths -> BuildOutcomes] :
            \A p \in Paths :
                (~Supported(p) \/ ~Walked(p) \/ disk[p] = 0) => out[p] = "ok" }
    ELSE { AllOk }

Build ==
    \E force \in BOOLEAN : \E fault \in BuildFaultsNow(force) :
      \E out \in BuildInputs(force, fault) :
        \E post \in { initialize_vector_store(force, fault, out) } :
          /\ dbExists' = post.dbExists
          /\ store' = post.store
          /\ meta' = post.meta
          /\ connOpen' = post.connOpen
          /\ call' = [op |-> "build", force |-> force, fault |-> fault, out |-> out]
          /\ result' = post.result
          /\ io' = post.io
          /\ UNCHANGED commits

(* --------------------------- specification ---------------------------- *)

Next ==
    \/ \E p \in WalkedPaths, c \in 0..MaxContent : c \in Contents(p) /\ Commit(p, c)
    \/ Build
    \/ Update

Spec == Init /\ [][Next]_vars

(* ------------- a repository that tracks a hidden directory ------------- *)

\* The files of a repository that also tracks a workflow file under .github/.
HiddenPaths == { PathA, PathD }

HiddenNext ==
    \/ \E p \in HiddenPaths, c \in 0..MaxContent : c \in Contents(p) /\ Commit(p, c)
    \/ Build
    \/ Update

HiddenSpec == Init /\ [][HiddenNext]_vars

(* ----------------------- the init/update driver ----------------------- *)

\* commit_and_push_vector_store: `git add -f .docucat`, and a commit when git
\* status reports a change.  The history afterwards; sha is what store.json
\* records on disk.
commit_and_push_vector_store(sha) ==
    LET staged == [commits[head] EXCEPT ![PathS] = StoreJson(sha)]
    IN  IF staged = commits[head] THEN commits ELSE Append(commits, staged)

\* The test of main() that decides whether the update is committed.
HasChanges(r) ==
    r.changed_files > 0 \/ r.chunks_deleted > 0 \/ r.chunks_added > 0

\* The calls that can fail under main(): it has checked the repository path
\* and GEMINI_API_KEY itself, and store.json is taken to be writable.
MainFaults ==
    IF meta # 0
    THEN UpdateFaultsNow \ { "root", "key", "meta_open", "meta_write" }
    ELSE BuildFaultsNow(FALSE) \ { "root", "key", "sha", "meta_open", "meta_write" }

\* main() of the driver: update when store.json exists, build with
\* force = False otherwise, exit on a failure, then commit and push .docucat.
Main ==
    /\ head < MaxCommits
    /\ \E fault \in MainFaults :
       \E out \in IF meta # 0 THEN UpdateInputs(fault) ELSE BuildInputs(FALSE, fault) :
       \E post \in { IF meta # 0
                      THEN update_vector_store(fault, out)
                      ELSE initialize_vector_store(FALSE, fault, out) } :
        LET pushes == /\ post.result.success
                      /\ meta # 0 => HasChanges(post.result)
        IN  /\ store' = post.store
            /\ meta' = post.meta
            /\ connOpen' = post.connOpen
            /\ dbExists' = IF meta # 0 THEN dbExists ELSE post.dbExists
            /\ result' = post.result
            /\ io' = post.io
            /\ commits' = IF pushes THEN commit_and_push_vector_store(post.meta)
                                    ELSE commits
            /\ call' = [op |-> "main", force |-> FALSE, fault |-> fault,
                        out |-> out, committed |-> commits' # commits]

DriverNext ==
    \/ \E p \in WalkedPaths, c \in 0..MaxContent : c \in Contents(p) /\ Commit(p, c)
    \/ Main

DriverSpec == Init /\ [][DriverNext]_vars

(* --------------------------- the query tool --------------------------- *)

EMBEDDING_DIM == 256

\* The largest top_k the tool is called with.
MaxTopK == 2

\* The lengths of the vector embed_query returns: one short, right, one long.
QueryLengths == { EMBEDDING_DIM - 1, EMBEDDING_DIM, EMBEDDING_DIM + 1 }

\* A vector of n components, none of them 0.0.
Vector(n) == [i \in 1..n |-> 1]

\* The call of the tool that fails, if any: GEMINI_API_KEY is unset,
\* embed_query raises, Collection() or load raises, search raises.
QueryFaults == { "none", "key", "embed", "lookup", "search" }

\* "Ensure correct dimensionality": a short vector is padded with 0.0, a long
\* one is cut to its first EMBEDDING_DIM components.
EnsureDimension(query_embedding) ==
    IF Len(query_embedding) # EMBEDDING_DIM
    THEN IF Len(query_embedding) < EMBEDDING_DIM
         THEN query_embedding
                \o [i \in 1..(EMBEDDING_DIM - Len(query_embedding)) |-> 0]
         ELSE SubSeq(query_embedding, 1, EMBEDDING_DIM)
    ELSE query_embedding

\* What the tool has called: searched is the vector handed to search.
NoQueryIO == [connects |-> 0, embeds |-> 0, searches |-> 0, searched |-> <<>>]

\* The string the tool returns: an error message, or the hits found.
QueryError == [error |-> TRUE, hits |-> 0]

\* query_vector_store: the state it leaves and what it returns.  An exception
\* after connect is turned into an error string without a disconnect.
query_vector_store(n, top_k, fault) ==
    LET pre == [connOpen |-> connOpen, io |-> NoQueryIO, result |-> QueryError]
        query_embedding == EnsureDimension(Vector(n))
        total == NumEntities(store)
    IN  IF ~dbExists THEN pre
        ELSE IF fault = "key" THEN pre
        ELSE IF fault = "embed" THEN [pre EXCEPT !.io.embeds = 1]
        ELSE IF fault = "lookup"
        THEN [pre EXCEPT !.io.embeds = 1, !.io.connects = 1, !.connOpen = TRUE]
        ELSE IF fault = "search"
        THEN [pre EXCEPT !.io.embeds = 1, !.io.connects = 1, !.connOpen = TRUE,
                         !.io.searches = 1, !.io.searched = query_embedding]
        ELSE [pre EXCEPT !.io.embeds = 1, !.io.connects = 1, !.connOpen = FALSE,
                         !.io.searches = 1, !.io.searched = query_embedding,
                         !.result = [error |-> FALSE,
                                     hits |-> IF total < top_k THEN total ELSE top_k]]

\* The rows a collection can hold when the tool is called.
QueryRows == { r \in Rows : r.file_path \in { PathA, PathB } }

QueryInit ==
    /\ commits = <<InitialTree>>
    /\ dbExists \in BOOLEAN
    /\ \E S \in SUBSET QueryRows :
            /\ ~dbExists => S = {}
            /\ store = [r \in Rows |-> IF r \in S THEN 1 ELSE 0]
    /\ meta = 0
    /\ connOpen = FALSE
    /\ call = NoCall
    /\ result = NoResult
    /\ io = NoIO

Query ==
    \E n \in QueryLengths, top_k \in 1..MaxTopK, fault \in QueryFaults :
      \E post \in { query_vector_store(n, top_k, fault) } :
        /\ connOpen' = post.connOpen
        /\ call' = [op |-> "query", length |-> n, top_k |-> top_k, fault |-> fault]
        /\ result' = post.result
        /\ io' = post.io
        /\ UNCHANGED <<commits, dbExists, store, meta>>

QueryNext == Query

QuerySpec == QueryInit /\ [][QueryNext]_vars

(* ------------------- delete_chunks_by_file_path alone ------------------ *)

\* a.py.md, which has a.py as a prefix.
PathAMd == [dirs |-> <<>>, stem |-> "a.py", ext |-> ".md"]

DeletePaths == { PathA, PathAMd, PathB }

\* The rows of the collections the function is called on.
DeleteRows == [file_path : DeletePaths, content : { <<2, 1>>, <<3, 1>> }]

DeleteFaults == { "none", "query", "flush" }

\* Any collection over these rows, connected.
DeleteInit ==
    /\ commits = <<InitialTree>>
    /\ dbExists = TRUE
    /\ store \in [DeleteRows -> 0..MaxCopies]
    /\ meta = 0
    /\ connOpen = TRUE
    /\ call = NoCall
    /\ result = NoResult
    /\ io = NoIO

\* One call delete_chunks_by_file_path(collection, p).
DeleteByPath ==
    \E p \in DeletePaths, fault \in DeleteFaults :
      \E d \in { delete_chunks_by_file_path(store, p, fault) } :
        /\ store' = d.store
        /\ call' = [op |-> "delete", path |-> p, fault |-> fault]
        /\ result' = [deleted |-> d.deleted, error |-> d.error]
        /\ io' = [NoIO EXCEPT !.deletes = d.issued]
        /\ UNCHANGED <<commits, dbExists, meta, connOpen>>

DeleteNext == DeleteByPath

DeleteSpec == DeleteInit /\ [][DeleteNext]_vars

(* ------------------------------ properties ----------------------------- *)

Range(seq) == { seq[i] : i \in 1..Len(seq) }

\* The chunk texts of content version c of a file.
ChunksOf(c) == Range(split_file_into_chunks(c, FALSE).chunks)

\* The store holds for p exactly one row per chunk of content version c.
HoldsExactly(s, p, c) ==
    LET chunks == ChunksOf(c)
    IN  \A r \in Rows :
            r.file_path = p => s[r] = IF r.content \in chunks THEN 1 ELSE 0

\* The update that just returned ran its per-file loop to the end.
UpdateLooped ==
    /\ call.op = "update"
    /\ result.success
    /\ result.changed_files > 0

\* The supported files of the diff the update that just returned worked on.
ChangedSupported ==
    { p \in Range(get_changed_files(result.old_sha, result.new_sha)) : Supported(p) }

\* The supported files of the diff between store.json's commit and HEAD.
PendingSupported ==
    { p \in Range(get_changed_files(meta, head)) : Supported(p) }

\* C1: whenever store.json is present, the collection holds, for every file,
\* exactly the chunks of the file's content at the commit store.json records.
C1_StoreReflectsMetadata ==
    meta # 0 =>
        \A p \in Paths :
            HoldsExactly(store, p, IF Supported(p) THEN commits[meta][p] ELSE 0)

\* C2 as claimed: after an update, every supported changed file has exactly
\* the chunks of its content on disk.
C2_AllChangedMatchDisk ==
    UpdateLooped => \A p \in ChangedSupported : HoldsExactly(store, p, disk[p])

\* C2 as amended: after an update, every supported changed file that is not
\* listed in processing_errors has exactly the chunks of its content on disk.
C2_ProcessedMatchDisk ==
    UpdateLooped =>
        \A p \in ChangedSupported :
            p \notin Range(result.processing_errors) => HoldsExactly(store, p, disk[p])

\* An update without errors replaced the chunk of a modified file by two new
\* ones and stored the chunk of an added file.
C2_Witness ==
    /\ UpdateLooped
    /\ result.processing_errors = <<>>
    /\ ChangedSupported = { PathA, PathB }
    /\ commits[result.old_sha][PathA] = 2 /\ disk[PathA] = 3
    /\ commits[result.old_sha][PathB] = 0 /\ disk[PathB] = 2
    /\ result.chunks_deleted = 1
    /\ result.chunks_added = 3

\* C3: an update that runs to the end leaves, under every supported changed
\* file, no row that was stored before the call: what is stored afterwards is
\* what this call inserted, nothing for a file in processing_errors.
C3_NoStoredChunkSurvives ==
    [][ (call'.op = "update" /\ result'.success /\ result'.changed_files > 0) =>
            \A p \in PendingSupported : \A r \in Rows :
                (r.file_path = p /\ store[r] > 0) =>
                    store'[r] = IF /\ p \notin Range(result'.processing_errors)
                                   /\ r.content \in ChunksOf(disk[p])
                                THEN 1 ELSE 0 ]_vars

\* C4: an update that follows an update that returned success, with no commit
\* in between, deletes and inserts nothing, reports zero chunks deleted and
\* added, and leaves store.json as the first update left it.  (Read in the
\* claim's favour: a first update that failed has left its work undone.)
C4_SecondUpdateIdle ==
    [][ (call.op = "update" /\ result.success /\ call'.op = "update") =>
            /\ io'.deletes = 0 /\ io'.inserts = 0
            /\ store' = store
            /\ meta' = meta
            /\ result'.success =>
                    result'.chunks_deleted = 0 /\ result'.chunks_added = 0 ]_vars

\* C5: an update that finds store.json's sha equal to HEAD returns success
\* with all counts zero, calls neither the backend, the embedding provider
\* nor git diff, and writes nothing.
C5_FastPathTouchesNothing ==
    [][ ( /\ call'.op = "update" /\ call'.fault \notin { "root", "sha" }
          /\ dbExists /\ meta # 0 /\ meta = head ) =>
            /\ result'.success
            /\ result'.changed_files = 0 /\ result'.processed_files = 0
            /\ result'.chunks_deleted = 0 /\ result'.chunks_added = 0
            /\ io' = NoIO
            /\ store' = store /\ meta' = meta /\ connOpen' = connOpen ]_vars

\* An update took the fast path on a store that holds rows.
C5_Witness ==
    /\ call.op = "update" /\ result.success
    /\ result.old_sha = result.new_sha
    /\ NumEntities(store) > 0

\* C6: after an update that returned success on differing shas, store.json
\* holds the new sha, the sha of HEAD.
C6_MetadataAdvanced ==
    (call.op = "update" /\ result.success /\ result.old_sha # result.new_sha) =>
        meta = result.new_sha /\ result.new_sha = head

\* What C7 promises of an update: success with zero counts, no delete, no
\* insert, store.json at HEAD.
C7_Advanced ==
    /\ result'.success
    /\ result'.processed_files = 0
    /\ result'.chunks_deleted = 0 /\ result'.chunks_added = 0
    /\ io'.deletes = 0 /\ io'.inserts = 0
    /\ store' = store
    /\ meta' = head

\* The four preconditions of update hold, the shas differ, git diff answers,
\* and no supported file is in the diff.
C7_NothingIndexable ==
    /\ call'.op = "update" /\ call'.fault \notin { "root", "sha", "diff" }
    /\ dbExists /\ meta # 0 /\ meta # head
    /\ PendingSupported = {}

\* C7: with its preconditions met, differing shas and a diff that is empty
\* or names only unsupported files, update succeeds with zero counts, deletes
\* and inserts nothing and advances store.json to HEAD.  (Read in the claim's
\* favour: the Collection lookup and the creation of the embedding model,
\* which come before the loop when the diff is not empty, do not fail.)
C7_NothingIndexableAdvances ==
    [][ (C7_NothingIndexable /\ call'.fault \notin { "lookup", "key" })
        => C7_Advanced ]_vars

\* The files of this update whose split or embedding failed after the delete.
C8_FailedAfterDelete ==
    { p \in PendingSupported :
        \/ call'.out[p] = "split_error" /\ disk[p] # 0
        \/ call'.out[p] = "embed_error" /\ disk[p] >= 2 }

C9_FailureChangesNothing ==
    [][ (call'.op = "update" /\ ~result'.success) =>
            /\ store' = store
            /\ meta' = meta
            /\ io'.deletes = 0 /\ io'.inserts = 0 /\ io'.meta_writes = 0 ]_vars

\* An update failed with a processing_error after it had connected, with
\* supported changed files waiting and rows in the store.
C9_Witness ==
    /\ call.op = "update" /\ ~result.success
    /\ result.error_type = "processing_error"
    /\ io.connects = 1
    /\ PendingSupported # {}
    /\ NumEntities(store) > 0

\* C10: a build without force over an existing store returns already_exists
\* with the store path, leaves the rows and store.json as they were and does
\* not connect to the backend.
C10_BuildWithoutForceRefused ==
    [][ (call'.op = "build" /\ ~call'.force /\ call'.fault # "root" /\ dbExists) =>
            /\ ~result'.success
            /\ result'.error_type = "already_exists"
            /\ result'.store_path = ".docucat"
            /\ store' = store /\ meta' = meta /\ dbExists'
            /\ io'.connects = 0 /\ connOpen' = connOpen ]_vars

\* A build without force was refused over a store that holds rows and has
\* its store.json.
C10_Witness ==
    /\ call.op = "build" /\ ~call.force
    /\ ~result.success /\ result.error_type = "already_exists"
    /\ NumEntities(store) > 0
    /\ meta # 0

\* C11: after a forced build that returns success, the collection holds
\* exactly the chunks of the files this build scanned and split (no row of the
\* store before it is left), and store.json is absent or records HEAD.
C11_ForcedBuildReplaces ==
    [][ (call'.op = "build" /\ call'.force /\ result'.success) =>
            /\ \A p \in Paths :
                    HoldsExactly(store', p,
                        IF p \in Range(scan_repository_files)
                           /\ call'.out[p] = "ok"
                        THEN disk[p] ELSE 0)
            /\ meta' = 0 \/ meta' = head ]_vars

\* C12: neither build nor update stores a vector whose length is not
\* EMBEDDING_DIM, whichever vector of the batch it is: such a batch fails.
C12_NoWrongDimensionStored ==
    [][ call'.op \in { "build", "update" } => io'.bad_vectors = 0 ]_vars

C14_ConnectionReleased ==
    call.op \in { "build", "update" } => ~connOpen

\* An exception was raised inside the build or update that returns: by git,
\* the walk, the Collection lookup, the embedding model or provider, insert,
\* or a step of the per-file loop.
C15_RaisedInside ==
    \/ call'.fault \in { "lookup", "key", "diff", "scan" }
    \/ call'.fault = "embed" /\ io'.embeds = 1
    \/ call'.fault \in { "insert", "flush" } /\ io'.inserts = 1
    \/ \E p \in Paths :
            call'.out[p] \in { "delete_error", "delete_flush_error",
                              "split_error", "embed_error", "flush_error" }

\* The exception reached the outer `except Exception` of the operation: no
\* inner handler stands around the Collection lookup of update and the
\* insert and flush of build.
C15_ReachedBoundary ==
    \/ call'.op = "update" /\ call'.fault = "lookup"
    \/ call'.op = "build" /\ call'.fault \in { "insert", "flush" } /\ io'.inserts = 1

\* C15 as claimed: every exception raised inside a build or an update is
\* returned as the failure dict of the operation boundary: processing_error
\* with the message and a traceback.
C15_EveryExceptionAtBoundary ==
    [][ (call'.op \in { "build", "update" } /\ C15_RaisedInside) =>
            result' = Caught ]_vars

\* C15 as amended: a build or an update always returns a dict, never an
\* exception, and an exception that no inner handler catches is returned as
\* processing_error with the message and a traceback.
C15_UncaughtReturnedAtBoundary ==
    [][ call'.op \in { "build", "update" } =>
            /\ result'.success \in BOOLEAN
            /\ ~result'.success =>
                    result'.error_type \in { "validation", "already_exists",
                        "scan_error", "git_error", "processing_error" }
            /\ C15_ReachedBoundary => result' = Caught ]_vars

\* The Collection lookup of an update raised, with supported changed files
\* waiting, and the update returned the dict with the traceback.
C15_Witness ==
    /\ call.op = "update" /\ call.fault = "lookup"
    /\ ~result.success /\ result = Caught
    /\ PendingSupported # {}

\* C16: an update leaves the rows of every file that is not a supported
\* changed file as they were, issues a delete or an insert only for supported
\* changed files, and counts only those as processed or failed; the
\* extension is compared in lower case (docs/b.MD is supported).
C16_UnsupportedSkipped ==
    [][ call'.op = "update" =>
            IF dbExists /\ meta # 0
            THEN /\ \A r \in Rows :
                        r.file_path \notin PendingSupported => store'[r] = store[r]
                 /\ io'.deletes <= Cardinality(PendingSupported)
                 /\ io'.inserts <= Cardinality(PendingSupported)
                 /\ \A r \in Rows : r.file_path = PathC => store'[r] = 0
                 /\ (result'.success /\ result'.changed_files > 0) =>
                        result'.processed_files + Len(result'.processing_errors)
                            = Cardinality(PendingSupported)
            ELSE store' = store /\ io'.deletes = 0 /\ io'.inserts = 0 ]_vars

\* An update whose diff named c.bin, with text, and docs/b.MD stored the
\* chunks of docs/b.MD and nothing for c.bin, next to the row of a.py.
C16_Witness ==
    /\ UpdateLooped
    /\ result.processing_errors = <<>>
    /\ PathC \in Range(get_changed_files(result.old_sha, result.new_sha))
    /\ disk[PathC] = 2
    /\ ChangedSupported = { PathB }
    /\ CountOf(store, PathB) > 0
    /\ CountOf(store, PathC) = 0
    /\ CountOf(store, PathA) > 0

\* The scanned files this build split into at least one chunk.
BuildChunked ==
    { p \in Range(scan_repository_files) :
        call'.out[p] = "ok" /\ ChunksOf(disk[p]) # {} }

\* C17: a build in which nothing but the split of files fails returns
\* success; a successful build reports as files_scanned the supported files
\* the walk found, as files_processed those that gave at least one chunk, as
\* chunks_stored the rows it inserted, and lists in processing_errors the
\* files whose split failed; without supported files all three counts are 0.
C17_BuildCounts ==
    [][ (call'.op = "build" /\ ~AlreadyExists(call'.force)) =>
            /\ call'.fault \in { "none", "sha", "meta_open", "meta_write" } =>
                    result'.success
            /\ result'.success =>
                /\ result'.files_scanned = Len(scan_repository_files)
                /\ result'.files_processed = Cardinality(BuildChunked)
                /\ result'.chunks_stored = NumEntities(store')
                /\ \A p \in BuildChunked : HoldsExactly(store', p, disk[p])
                /\ Range(result'.processing_errors) =
                        { p \in Range(scan_repository_files) :
                            call'.out[p] = "split_error" }
                /\ scan_repository_files = <<>> =>
                        /\ result'.files_scanned = 0
                        /\ result'.files_processed = 0
                        /\ result'.chunks_stored = 0 ]_vars

\* A build returned success over two scanned files, one of them white space
\* only: it is scanned, not processed, and the other one's two chunks are
\* stored.
C17_Witness ==
    /\ call.op = "build" /\ result.success
    /\ result.processing_errors = <<>>
    /\ \E p \in SupportedPaths : disk[p] = 1
    /\ result.files_scanned = 2
    /\ result.files_processed = 1
    /\ result.chunks_stored = 2
    /\ NumEntities(store) = 2

\* C18: when an update has failed to reinsert a file after deleting its rows
\* and has advanced store.json, the update that returns success next leaves
\* the store with the chunks of the file's content on disk.
C18_NextUpdateRestores ==
    [][ \A p \in SupportedPaths :
          ( /\ UpdateLooped
            /\ call.out[p] \in { "split_error", "embed_error" }
            /\ p \in Range(result.processing_errors)
            /\ meta = result.new_sha
            /\ call'.op = "update" /\ result'.success )
          => HoldsExactly(store', p, disk[p]) ]_vars

\* What C19 promises of a build: success with the chunks of every file it
\* split stored, or failure with an empty collection.
C19_AllOrNothing ==
    \/ /\ result'.success
       /\ \A p \in Paths :
            HoldsExactly(store', p, IF p \in BuildChunked THEN disk[p] ELSE 0)
       /\ io'.inserts <= 1
    \/ /\ ~result'.success
       /\ NumEntities(store') = 0

\* C19 as claimed: every build that creates the collection ends in one of
\* the two.
C19_BuildAllOrNothing ==
    [][ (call'.op = "build" /\ call'.fault # "root" /\ ~AlreadyExists(call'.force))
        => C19_AllOrNothing ]_vars

\* C19 as amended: the same, for the builds in which flush does not raise
\* after the insert.
C19_BuildAllOrNothingUnlessFlush ==
    [][ (call'.op = "build" /\ call'.fault \notin { "root", "flush" }
         /\ ~AlreadyExists(call'.force))
        => C19_AllOrNothing ]_vars

\* The insert of a build over two files raised: the build failed and the new
\* collection is empty.
C19_Witness ==
    /\ call.op = "build" /\ call.fault = "insert"
    /\ ~result.success
    /\ io.inserts = 1
    /\ Len(scan_repository_files) = 2
    /\ dbExists /\ NumEntities(store) = 0

\* C20: a call of delete_chunks_by_file_path(p) in which no backend call
\* raises removes the rows whose file_path is p and no other row (not those
\* of a.py.md when p is a.py), returns their number without error, and with
\* no row under p returns 0 without error and issues no delete.
C20_DeletesExactlyPath ==
    [][ (call'.op = "delete" /\ call'.fault = "none") =>
            /\ \A r \in DOMAIN store :
                    store'[r] = IF r.file_path = call'.path THEN 0 ELSE store[r]
            /\ result'.deleted = CountOf(store, call'.path)
            /\ ~result'.error
            /\ CountOf(store, call'.path) = 0 =>
                    /\ result'.deleted = 0
                    /\ io'.deletes = 0
                    /\ store' = store ]_vars

\* The delete of a.py removed three rows and left those of a.py.md.
C20_Witness ==
    /\ call.op = "delete" /\ call.path = PathA /\ call.fault = "none"
    /\ result.deleted = 3 /\ ~result.error
    /\ CountOf(store, PathA) = 0
    /\ CountOf(store, PathAMd) > 0

\* C21: after an update that returns success, the rows of the collection are
\* those before, minus chunks_deleted, plus chunks_added, and changed_files
\* is the number of paths of the diff.
C21_CountsMatchEffects ==
    [][ (call'.op = "update" /\ result'.success) =>
            /\ NumEntities(store') =
                    NumEntities(store) - result'.chunks_deleted + result'.chunks_added
            /\ result'.changed_files = Len(get_changed_files(meta, head)) ]_vars

\* C22: after an update that ran its loop, every supported changed file is
\* either counted in processed_files or listed once in processing_errors,
\* never both and never neither.
C22_EveryPathAccounted ==
    UpdateLooped =>
        LET errors == result.processing_errors
        IN  /\ Range(errors) \subseteq ChangedSupported
            /\ \A i, j \in DOMAIN errors : errors[i] = errors[j] => i = j
            /\ result.processed_files =
                    Cardinality(ChangedSupported \ Range(errors))
            /\ result.processed_files + Len(errors) = Cardinality(ChangedSupported)

\* An update of two supported changed files, one processed and one failed.
C22_Witness ==
    /\ UpdateLooped
    /\ Cardinality(ChangedSupported) = 2
    /\ result.processed_files = 1
    /\ Len(result.processing_errors) = 1

\* C23: an update in which a changed file fails (in the delete, the chunking,
\* the embedding or the insertion) still returns success, and every other
\* supported changed file, before or after the failed one in the diff, has
\* its old rows deleted and the chunks of its content on disk inserted.
C23_FailureDoesNotStopOthers ==
    [][ (/\ call'.op = "update"
         /\ call'.fault \in { "none", "meta_open", "meta_write" }
         /\ dbExists /\ meta # 0
         /\ \E p \in PendingSupported : call'.out[p] # "ok") =>
            /\ result'.success
            /\ \A p \in PendingSupported :
                    call'.out[p] = "ok" =>
                        /\ HoldsExactly(store', p, disk[p])
                        /\ \A i \in DOMAIN result'.processing_errors :
                                result'.processing_errors[i] # p ]_vars

\* a.py, first in the diff, failed, and docs/b.MD after it was indexed.
C23_Witness ==
    /\ UpdateLooped
    /\ ChangedSupported = { PathA, PathB }
    /\ call.out[PathA] # "ok"
    /\ call.out[PathB] = "ok"
    /\ result.processing_errors = <<PathA>>
    /\ CountOf(store, PathB) > 0
    /\ HoldsExactly(store, PathB, disk[PathB])

\* The update that just returned processed its diff with no error in any file.
C24_AppliedCleanly ==
    /\ UpdateLooped
    /\ call.out = AllOk
    /\ result.processing_errors = <<>>

\* C24: when the loop of update is applied a second time to the same diff with
\* the same content on disk and no error in either application, the
\* collection is the same after the second application as after the first
\* (no row twice), the second deletes as many rows as the first inserted and
\* inserts as many again.
C24_SecondApplicationSame ==
    [][ (/\ C24_AppliedCleanly
         /\ C24_AppliedCleanly'
         /\ result'.old_sha = result.old_sha
         /\ result'.new_sha = result.new_sha) =>
            /\ store' = store
            /\ \A r \in Rows : r.file_path \in ChangedSupported => store'[r] <= 1
            /\ result'.chunks_deleted = result.chunks_added
            /\ result'.chunks_added = result.chunks_added
            /\ result'.processed_files = result.processed_files ]_vars

\* The loop was applied twice to a diff of two supported files: store.json
\* could not be opened after the first application, and the second deleted
\* the rows the first had inserted.
C24_Witness ==
    /\ C24_AppliedCleanly
    /\ ChangedSupported = { PathA, PathB }
    /\ io.meta_writes = 1
    /\ meta = result.new_sha
    /\ result.chunks_deleted = result.chunks_added
    /\ result.chunks_added >= 2
    /\ \A p \in ChangedSupported : HoldsExactly(store, p, disk[p])
    /\ NumEntities(store) = result.chunks_added

\* The rows a build without any failure stores for a tree: one row for each
\* chunk of each supported file the walk reaches.
C25_FreshBuild(tree) ==
    [r \in Rows |->
        IF /\ Walked(r.file_path) /\ Supported(r.file_path)
           /\ r.content \in ChunksOf(tree[r.file_path])
        THEN 1 ELSE 0]

\* C25: when the collection holds what a build of the commit recorded in
\* store.json stores, an update to HEAD in which no file fails leaves the
\* collection holding what a build of HEAD stores.
C25_UpdateEqualsFreshBuild ==
    [][ (/\ call'.op = "update"
         /\ result'.success
         /\ call'.fault = "none"
         /\ call'.out = AllOk
         /\ result'.processing_errors = <<>>
         /\ store = C25_FreshBuild(commits[meta])) =>
            store' = C25_FreshBuild(disk) ]_vars

\* C26: the collection never holds a row of a file that lies under a
\* directory the scan excludes.
C26_NoRowUnderExcludedDirectory ==
    \A r \in Rows : ~Walked(r.file_path) => store[r] = 0

\* C27: when a build with force = True fails after it has removed the
\* previous database, no store.json of an earlier build remains.
C27_FailedForcedBuildClearsMetadata ==
    [][ (/\ call'.op = "build" /\ call'.force
         /\ dbExists
         /\ io'.connects = 1
         /\ ~result'.success) =>
            meta' = 0 ]_vars

\* milvus.db exists with an empty collection and there is no store.json.
C28_EmptyShell ==
    /\ dbExists
    /\ meta = 0
    /\ store = EmptyStore

\* C28: a build with force = False on a repository without a database that
\* fails after creating it (scan error, missing API key, embedding error,
\* dimension mismatch) leaves a database with an empty collection and no
\* store.json; in that state every build of the repository with force = False
\* is refused with already_exists, every update fails with a validation
\* error, and no step
\* other than a build with force = True changes the state.
C28_FailedBuildLeavesEmptyShell ==
    [][ /\ (/\ call'.op = "build" /\ ~call'.force
             /\ ~dbExists
             /\ call'.fault \in { "scan", "key", "embed", "dim_first" }
             /\ ~result'.success) =>
                C28_EmptyShell'
        /\ (C28_EmptyShell /\ ~(call'.op = "build" /\ call'.force)) =>
                /\ C28_EmptyShell'
                /\ UNCHANGED <<dbExists, store, meta>>
                /\ (call'.op = "build" /\ call'.fault # "root") =>
                        ~result'.success /\ result'.error_type = "already_exists"
                /\ call'.op = "update" =>
                        ~result'.success /\ result'.error_type = "validation" ]_vars

\* After the first build of the first commit failed before anything was
\* inserted, a second build with force = False is refused.
C28_Witness ==
    /\ head = 1
    /\ C28_EmptyShell
    /\ ~connOpen
    /\ call.op = "build" /\ ~call.force
    /\ ~result.success /\ result.error_type = "already_exists"

\* C29: a run of main() that directly follows a run of main() that committed
\* .docucat deletes no chunk, inserts no chunk and creates no commit.
C29_RerunIsIdle ==
    [][ (/\ call.op = "main" /\ call.committed
         /\ call'.op = "main") =>
            /\ io'.deletes = 0
            /\ io'.inserts = 0
            /\ commits' = commits ]_vars

\* C30: when embed_query returns a vector whose length is not EMBEDDING_DIM
\* and nothing else fails, the tool returns an error and search is not
\* called.
C30_MismatchIsAnError ==
    [][ (/\ call'.op = "query"
         /\ dbExists
         /\ call'.fault = "none"
         /\ call'.length # EMBEDDING_DIM) =>
            /\ result'.error
            /\ io'.searches = 0 ]_vars

====
